---- MODULE Spec2Model ----
(***************************************************************************)
(* Model of src/main.py: OBD-II connection discovery (connect_obd), the    *)
(* capability gate and the telemetry aggregator of main(), and the way the *)
(* process ends (sys.exit, operator interruption under asyncio.run).       *)
(*                                                                         *)
(* Two flows of control exist.  The main thread runs __main__, main() and  *)
(* connect_obd(); its position is pc.  The session's polling thread,       *)
(* started by connection.start(), invokes the three callbacks one after    *)
(* the other; its position is wpc.                                         *)
(***************************************************************************)
EXTENDS Integers, Sequences, FiniteSets, TLC

\* ------------------------------------------------------------------ bounds
\* Largest number of serial devices list_ports.comports() enumerates.
MaxSerial == 2
\* Largest number of callback invocations the polling thread makes in a run.
MaxDeliveries == 4
\* Data bytes of a message beyond the two the decoders read.
MaxTrailing == 1
\* Messages of a response after the first.
MaxMore == 1

\* --------------------------------------------------------------- constants
\* wifi_addresses, the hardcoded network candidates, in list order.
wifi_addresses ==
    << [transport |-> "socket", ip |-> "192.168.0.10",  port |-> 35000],
       [transport |-> "socket", ip |-> "192.168.0.10",  port |-> 23],
       [transport |-> "socket", ip |-> "192.168.0.11",  port |-> 35000],
       [transport |-> "socket", ip |-> "192.168.0.123", port |-> 35000] >>

\* The serial candidate for an enumerated device (opened at 9600 baud).
SerialCandidate(dev) == [transport |-> "serial", device |-> dev, baudrate |-> 9600]

\* required_commands, in the order main() lists them.
required_commands == << "RPM", "ACTUAL_ENGINE_PERCENT_TORQUE", "ENGINE_REF_TORQUE" >>

\* The two custom commands main() registers with obd.commands.
CustomCommands == { "ACTUAL_ENGINE_PERCENT_TORQUE", "ENGINE_REF_TORQUE" }

\* The divisor of the horsepower formula.
HP_DIVISOR == 7127

\* Exit status of the interpreter when KeyboardInterrupt reaches top level.
EXIT_SIGINT == 130

\* Python's None, and a present value v.
None == << >>
Some(v) == << v >>

\* Values the vehicle can answer with (RPM magnitude, percent torque as
\* decoded A - 125, reference torque in Nm).
RpmValues == { 3000, 4000 }
TorquePercentValues == { 50, -25 }
ReferenceTorqueValues == { 300, 400 }

\* A response object handed to a callback: its value is None for "no data".
Responses(vals) == { [value |-> None] } \cup { [value |-> Some(v)] : v \in vals }

\* The callbacks main() defines, one per watched command.
Callbacks == { "new_rpm", "new_torque_percent", "new_reference_torque" }

\* The largest value of a data byte.
ByteMax == 255
\* Values of the data bytes the decoders do not read.
TrailingByteValues == { 0, 255 }

\* The command lines the process is started with (sys.argv).
Argvs == { << "main.py" >>, << "main.py", "--self-test" >> }

VARIABLES
    argv,                 \* sys.argv
    self_test_output,     \* console: what self_test() printed, or None
    messages,             \* the message sequence handed to a decoder
    decoded,              \* the decoder applied to messages and its outcome, or None
    pc,                   \* position of the main thread
    serial_ports,         \* connect_obd: the enumerated serial devices
    idx,                  \* connect_obd: index of the loop in progress
    connection,           \* the session variable (None, or a session record)
    probes,               \* history: the candidates probed so far, in order,
                          \*   each with whether its session reported connected
    attempt,              \* history: the latest pass of a candidate loop, or None
    unreleased,           \* history: a session that reported not connected was
                          \*   opened and nothing has closed it
    registered,           \* obd.commands: the custom commands added
    unsupported_commands, \* main: the result of the capability check
    session_supports,     \* history: the commands the session reported supported
    watched,              \* the session: commands with a subscribed callback
    running,              \* the session: polling thread alive
    started,              \* history: connection.start() was called
    stopped,              \* history: connection.stop() has returned
    session_lost,         \* the session has failed for good while polling
    data,                 \* main: the shared snapshot
    reports,              \* console: the horsepower reports printed, in order
    wpc,                  \* position of each callback (idle, or process_data)
    after,                \* history: the snapshot right after a callback's update
    exc,                  \* exception propagating out of the wait, or None
    exit_status,          \* None while the process runs, then its status
    exit_by,              \* history: what ended the process
    deliveries,           \* history: callback invocations made
    completing,           \* history: present deliveries that left data complete
    delivered,            \* history: last present value delivered per command
    last_call,            \* history: the latest callback invocation and its response
    mid_callback          \* history: the interrupt came while a callback was executing

vars == << argv, self_test_output, messages, decoded, pc, serial_ports, idx, connection, probes, attempt, unreleased, registered,
           unsupported_commands, session_supports, watched, running, started, stopped, session_lost, data,
           reports, wpc, after, exc, exit_status, exit_by, deliveries,
           completing, delivered, last_call, mid_callback >>

cliVars == << argv, self_test_output >>
decodeVars == << messages, decoded >>
gateVars == << unsupported_commands, session_supports >>
discoveryVars == << serial_ports, idx, connection, probes, attempt, unreleased >>
sessionVars == << watched, running, started, stopped, session_lost >>
workerVars == << data, reports, wpc, after, deliveries, completing, delivered,
                last_call >>
exitVars == << exc, exit_status, exit_by, mid_callback >>

\* data = {'RPM': None, 'Torque_Percent': None, 'Reference_Torque': None}
EmptyData == [RPM |-> None, Torque_Percent |-> None, Reference_Torque |-> None]

\* The state of the program when the interpreter reaches __main__.
ProgramInit ==
    /\ self_test_output = None
    /\ pc = "__main__"
    /\ serial_ports = << >>
    /\ idx = 0
    /\ connection = None
    /\ probes = << >>
    /\ attempt = None
    /\ unreleased = FALSE
    /\ registered = {}
    /\ unsupported_commands = << >>
    /\ session_supports = None
    /\ watched = {}
    /\ running = FALSE
    /\ started = FALSE
    /\ stopped = FALSE
    /\ session_lost = FALSE
    /\ data = EmptyData
    /\ reports = << >>
    /\ wpc = [cb \in Callbacks |-> "idle"]
    /\ after = [cb \in Callbacks |-> EmptyData]
    /\ exc = None
    /\ exit_status = None
    /\ exit_by = "running"
    /\ deliveries = 0
    /\ completing = 0
    /\ delivered = EmptyData
    /\ last_call = None
    /\ mid_callback = FALSE

Init ==
    /\ ProgramInit
    /\ argv \in Argvs
    /\ messages = << >>
    /\ decoded = None

\* ---------------------------------------------------------------- decoders
\* A decoder either returns a value (None or a number) or raises.
Returns(v) == [raised |-> "", value |-> v]
Raises(e) == [raised |-> e, value |-> None]

\* obd.utils.bytes_to_int: the big-endian value of a byte string.
RECURSIVE bytes_to_int(_)
bytes_to_int(bs) ==
    IF bs = << >> THEN 0
    ELSE bytes_to_int(SubSeq(bs, 1, Len(bs) - 1)) * (ByteMax + 1) + bs[Len(bs)]

\* Faulty variant: the result is clamped to the documented top, 125.
decode_percent_torque_clamped(msgs) ==
    IF Len(msgs) = 0 THEN Returns(None)
    ELSE LET msg == msgs[1] IN
         IF Len(msg.data) < 1 THEN Raises("IndexError")
         ELSE LET A == bytes_to_int(msg.data[1])
                  torque_percent == A - 125
              IN  Returns(Some(IF torque_percent > 125 THEN 125 ELSE torque_percent))

\* Faulty variant: no check for an empty message sequence.
decode_percent_torque_unguarded(msgs) ==
    IF Len(msgs) = 0 THEN Raises("IndexError")
    ELSE LET msg == msgs[1] IN
         IF Len(msg.data) < 1 THEN Raises("IndexError")
         ELSE LET A == bytes_to_int(msg.data[1])
              IN  Returns(Some(A - 125))

\* decode_percent_torque(messages)
decode_percent_torque(msgs) ==
    IF Len(msgs) = 0 THEN Returns(None)
    ELSE LET msg == msgs[1] IN
         IF Len(msg.data) < 1 THEN Raises("IndexError")
         ELSE LET A == bytes_to_int(msg.data[1])
                  torque_percent == A - 125
              IN  Returns(Some(torque_percent))

\* Faulty variant: the two bytes are combined low byte first.
decode_reference_torque_swapped(msgs) ==
    IF Len(msgs) = 0 THEN Returns(None)
    ELSE LET msg == msgs[1] IN
         IF Len(msg.data) < 2 THEN Raises("IndexError")
         ELSE LET A == bytes_to_int(msg.data[1])
                  B == bytes_to_int(msg.data[2])
              IN  Returns(Some(B * 2^8 + A))

\* decode_reference_torque(messages); A << 8 is A * 2^8.
decode_reference_torque(msgs) ==
    IF Len(msgs) = 0 THEN Returns(None)
    ELSE LET msg == msgs[1] IN
         IF Len(msg.data) < 2 THEN Raises("IndexError")
         ELSE LET A == bytes_to_int(msg.data[1])
                  B == bytes_to_int(msg.data[2])
                  torque == A * 2^8 + B
              IN  Returns(Some(torque))

\* The message sequences a decoder is applied to: none, or a first message
\* of 0 .. 2 + MaxTrailing data bytes followed by up to MaxMore messages.
\* msg.data[i] is the byte string of the i-th data byte.
DataByte == { << b >> : b \in 0 .. ByteMax }
TrailingData ==
    UNION { [1 .. n -> { << t >> : t \in TrailingByteValues }] : n \in 0 .. MaxTrailing }
FirstData ==
    { << >> } \cup { << a >> : a \in DataByte }
              \cup { << a, b >> \o t : a \in DataByte, b \in DataByte, t \in TrailingData }
MoreMessages ==
    UNION { [1 .. n -> { [data |-> << >>] }] : n \in 0 .. MaxMore }
IsMessageSeq(msgs) ==
    \/ msgs = << >>
    \/ \E d \in FirstData, m \in MoreMessages : msgs = << [data |-> d] >> \o m

\* The state in which a decoder is about to be called on a response.
DecodeInit ==
    /\ ProgramInit
    /\ argv = << "main.py" >>
    /\ IsMessageSeq(messages)
    /\ decoded = None

\* ACTUAL_ENGINE_PERCENT_TORQUE's decoder is applied to the response.
DecodePercentTorque ==
    /\ decoded = None
    /\ decoded' = Some([decoder |-> "decode_percent_torque",
                        result |-> decode_percent_torque(messages)])
    /\ UNCHANGED << cliVars, messages, pc >>
    /\ UNCHANGED << discoveryVars, registered, gateVars >>
    /\ UNCHANGED << sessionVars, workerVars, exitVars >>

\* ENGINE_REF_TORQUE's decoder is applied to the response.
DecodeReferenceTorque ==
    /\ decoded = None
    /\ decoded' = Some([decoder |-> "decode_reference_torque",
                        result |-> decode_reference_torque(messages)])
    /\ UNCHANGED << cliVars, messages, pc >>
    /\ UNCHANGED << discoveryVars, registered, gateVars >>
    /\ UNCHANGED << sessionVars, workerVars, exitVars >>

DecodeNext ==
    \/ DecodePercentTorque
    \/ DecodeReferenceTorque

DecodeSpec == DecodeInit /\ [][DecodeNext]_vars

\* ---------------------------------------------------------------- __main__
\* Faulty variant: the flag is looked for in sys.argv[0].
IsSelfTest_argv0(args) == Len(args) > 0 /\ args[1] = "--self-test"

\* len(sys.argv) > 1 and sys.argv[1] == "--self-test"
IsSelfTest(args) == Len(args) > 1 /\ args[2] = "--self-test"

\* The fixed input of self_test().
self_test_data ==
    [RPM |-> Some(3000), Torque_Percent |-> Some(50), Reference_Torque |-> Some(300)]

\* n / d rounded to the nearest integer (d > 0), as "{:.2f}" rounds.
RoundDiv(n, d) == (2 * n + d) \div (2 * d)

\* self_test: actual_torque_nm = (Torque_Percent / 100.0) * Reference_Torque,
\* in hundredths of a Nm.
self_test_actual_torque_nm(d) == d.Torque_Percent[1] * d.Reference_Torque[1]

\* Faulty variant: the constant for lb-ft, 5252, in place of 7127.
self_test_horsepower_5252(d) ==
    RoundDiv(self_test_actual_torque_nm(d) * d.RPM[1], 5252)

\* self_test: horsepower = (actual_torque_nm * RPM) / 7127, in hundredths of
\* a HP.
self_test_horsepower(d) ==
    RoundDiv(self_test_actual_torque_nm(d) * d.RPM[1], HP_DIVISOR)

\* self_test(): the five lines printed, each value in hundredths; the
\* process then ends normally.
self_test ==
    /\ pc = "__main__"
    /\ IsSelfTest(argv)
    /\ self_test_output' =
          Some([rpm |-> 100 * self_test_data.RPM[1],
                torque_percent |-> 100 * self_test_data.Torque_Percent[1],
                reference_torque |-> 100 * self_test_data.Reference_Torque[1],
                actual_torque |-> self_test_actual_torque_nm(self_test_data),
                horsepower |-> self_test_horsepower(self_test_data)])
    /\ pc' = "exit"
    /\ exit_status' = Some(0)
    /\ exit_by' = "self_test"
    /\ UNCHANGED << argv, decodeVars, exc, mid_callback >>
    /\ UNCHANGED << discoveryVars, registered, gateVars >>
    /\ UNCHANGED << sessionVars, workerVars >>

\* else: asyncio.run(main())
RunMain ==
    /\ pc = "__main__"
    /\ ~IsSelfTest(argv)
    /\ pc' = "main"
    /\ UNCHANGED << cliVars, decodeVars >>
    /\ UNCHANGED << discoveryVars, registered, gateVars >>
    /\ UNCHANGED << sessionVars, workerVars, exitVars >>

\* ------------------------------------------------------------ connect_obd
\* What one attempt on a candidate can come to.  "open_error" is obd.Async
\* raising, "unreachable" is socket.create_connection raising, and the other
\* two are what connection.is_connected() answers.
SerialOutcomes == { "open_error", "not_connected", "connected" }
WifiOutcomes == { "unreachable", "open_error", "not_connected", "connected" }

\* The session obd.Async(...) returns for a candidate.
Session(cand, isConnected) == [transport |-> cand, connected |-> isConnected]

\* Faulty variant: the session is returned without asking whether it is connected.
ReturnsSession_unchecked(outcome) == TRUE

\* if connection.is_connected(): return connection
ReturnsSession(outcome) == outcome = "connected"

\* Faulty variant: only the error of the session open is caught, not the socket's.
ExceptionCaught_open_only(outcome) == outcome = "open_error"

\* except Exception as e: ... continue
ExceptionCaught(outcome) == outcome \in { "open_error", "unreachable" }

\* The calls one pass of the serial loop makes, in order.
SerialOps(outcome) ==
    IF outcome = "open_error" THEN << "obd.Async" >>
    ELSE << "obd.Async", "is_connected" >>

\* Faulty variant: a failed reachability check is swallowed on its own and the
\* session is opened all the same.
WifiOps_open_regardless(outcome) ==
    CASE outcome = "unreachable" -> << "socket.create_connection", "obd.Async" >>
      [] outcome = "open_error" ->
            << "socket.create_connection", "sock.close", "obd.Async" >>
      [] OTHER ->
            << "socket.create_connection", "sock.close", "obd.Async", "is_connected" >>

\* The calls one pass of the network loop makes, in order: a call that
\* raises is the last of its pass.
WifiOps(outcome) ==
    CASE outcome = "unreachable" -> << "socket.create_connection" >>
      [] outcome = "open_error" ->
            << "socket.create_connection", "sock.close", "obd.Async" >>
      [] OTHER ->
            << "socket.create_connection", "sock.close", "obd.Async", "is_connected" >>

\* serial_ports = [port.device for port in list_ports.comports()]
Enumerate ==
    /\ UNCHANGED << cliVars, decodeVars >>
    /\ pc = "main"
    /\ \E n \in 0..MaxSerial : serial_ports' = [k \in 1..n |-> k]
    /\ idx' = 1
    /\ pc' = "serial"
    /\ UNCHANGED << connection, probes, attempt, unreleased, registered, gateVars >>
    /\ UNCHANGED << sessionVars, workerVars, exitVars >>

\* One pass of a candidate loop on candidate cand with the given outcome:
\* the session is assigned unless the open raised, a connected session is
\* returned, anything else moves the loop on.
Probe(cand, outcome, ops) ==
    /\ UNCHANGED << cliVars, decodeVars >>
    /\ attempt' = Some([loop |-> pc, at |-> idx, candidate |-> cand,
                        outcome |-> outcome, ops |-> ops])
    /\ unreleased' = (unreleased \/ outcome = "not_connected")
    /\ probes' = Append(probes, [candidate |-> cand, connected |-> outcome = "connected"])
    /\ IF outcome \in { "open_error", "unreachable" }
       THEN /\ connection' = connection
            /\ IF ExceptionCaught(outcome)
               THEN /\ idx' = idx + 1
                    /\ UNCHANGED << pc, exitVars >>
               ELSE /\ pc' = "exit"
                    /\ exit_status' = Some(1)
                    /\ exit_by' = "traceback"
                    /\ UNCHANGED << idx, exc, mid_callback >>
       ELSE /\ connection' = Some(Session(cand, outcome = "connected"))
            /\ IF ReturnsSession(outcome)
               THEN /\ pc' = "connected"
                    /\ UNCHANGED idx
               ELSE /\ idx' = idx + 1
                    /\ UNCHANGED pc
            /\ UNCHANGED exitVars
    /\ UNCHANGED << serial_ports, registered, gateVars >>
    /\ UNCHANGED << sessionVars, workerVars >>

\* for port in serial_ports: try ... obd.Async(port, baudrate=9600, fast=True)
TrySerial ==
    /\ pc = "serial"
    /\ idx <= Len(serial_ports)
    /\ \E outcome \in SerialOutcomes :
          Probe(SerialCandidate(serial_ports[idx]), outcome, SerialOps(outcome))

\* The serial loop is over: go on to wifi_addresses.
SerialExhausted ==
    /\ UNCHANGED << cliVars, decodeVars >>
    /\ pc = "serial"
    /\ idx > Len(serial_ports)
    /\ pc' = "wifi"
    /\ idx' = 1
    /\ UNCHANGED << serial_ports, connection, probes, attempt, unreleased >>
    /\ UNCHANGED << registered, gateVars >>
    /\ UNCHANGED << sessionVars, workerVars, exitVars >>

\* for ip, port in wifi_addresses: try ... create_connection, obd.Async
TryWifi ==
    /\ pc = "wifi"
    /\ idx <= Len(wifi_addresses)
    /\ \E outcome \in WifiOutcomes :
          Probe(wifi_addresses[idx], outcome, WifiOps(outcome))

\* Both loops are over without a return.
AllCandidatesTried == pc = "wifi" /\ idx > Len(wifi_addresses)

\* print("Could not connect to any OBD-II device."); sys.exit(1)
DiscoveryFailed ==
    /\ UNCHANGED << cliVars, decodeVars >>
    /\ AllCandidatesTried
    /\ pc' = "exit"
    /\ exit_status' = Some(1)
    /\ exit_by' = "discovery"
    /\ UNCHANGED << discoveryVars, registered, gateVars >>
    /\ UNCHANGED << exc, mid_callback >>
    /\ UNCHANGED << sessionVars, workerVars >>

\* ------------------------------------------------------------------- main
\* Faulty variant: only the first custom command is registered.
RegisterCommands_first_only ==
    /\ UNCHANGED << cliVars, decodeVars >>
    /\ pc = "connected"
    /\ IF connection = None
       THEN /\ pc' = "exit"
            /\ exit_status' = Some(0)
            /\ exit_by' = "return"
            /\ UNCHANGED << registered, exc, mid_callback >>
       ELSE /\ registered' = registered \cup { "ACTUAL_ENGINE_PERCENT_TORQUE" }
            /\ pc' = "gate"
            /\ UNCHANGED exitVars
    /\ UNCHANGED << discoveryVars, gateVars >>
    /\ UNCHANGED << sessionVars, workerVars >>

\* connect_obd() has returned: the None check, then
\* obd.commands.add_custom(...) for the two custom commands.
RegisterCommands ==
    /\ UNCHANGED << cliVars, decodeVars >>
    /\ pc = "connected"
    /\ IF connection = None
       THEN /\ pc' = "exit"
            /\ exit_status' = Some(0)
            /\ exit_by' = "return"
            /\ UNCHANGED << registered, exc, mid_callback >>
       ELSE /\ registered' = registered \cup CustomCommands
            /\ pc' = "gate"
            /\ UNCHANGED exitVars
    /\ UNCHANGED << discoveryVars, gateVars >>
    /\ UNCHANGED << sessionVars, workerVars >>

\* [cmd for cmd in required_commands if not connection.supports(cmd)]
Unsupported(supports) == SelectSeq(required_commands, LAMBDA cmd : cmd \notin supports)

\* Faulty variant: the gate rejects only when all three commands are unsupported.
GateRejects_all(unsupported) == Len(unsupported) = Len(required_commands)

\* if unsupported_commands: ... sys.exit(1)
GateRejects(unsupported) == unsupported # << >>

\* The capability check; supports is the set of commands the session reports
\* as supported.
CapabilityGate ==
    /\ UNCHANGED << cliVars, decodeVars >>
    /\ pc = "gate"
    /\ \E supports \in SUBSET { required_commands[i] : i \in 1..Len(required_commands) } :
          /\ unsupported_commands' = Unsupported(supports)
          /\ session_supports' = Some(supports)
          /\ IF GateRejects(Unsupported(supports))
             THEN /\ pc' = "exit"
                  /\ exit_status' = Some(1)
                  /\ exit_by' = "gate"
                  /\ UNCHANGED << exc, mid_callback >>
             ELSE /\ pc' = "watch"
                  /\ UNCHANGED exitVars
    /\ UNCHANGED << discoveryVars, registered >>
    /\ UNCHANGED << sessionVars, workerVars >>

\* The command each callback is subscribed to by connection.watch(...).
CommandOf(cb) ==
    CASE cb = "new_rpm" -> "RPM"
      [] cb = "new_torque_percent" -> "ACTUAL_ENGINE_PERCENT_TORQUE"
      [] cb = "new_reference_torque" -> "ENGINE_REF_TORQUE"

\* connection.watch(...) three times and connection.set_poll_interval(0.1)
Subscribe ==
    /\ UNCHANGED << cliVars, decodeVars >>
    /\ pc = "watch"
    /\ watched' = { CommandOf(cb) : cb \in Callbacks }
    /\ pc' = "start"
    /\ UNCHANGED << discoveryVars, registered, gateVars >>
    /\ UNCHANGED << running, started, stopped, session_lost >>
    /\ UNCHANGED << workerVars, exitVars >>

\* connection.start(); main() then enters the try and awaits the Event.
Start ==
    /\ UNCHANGED << cliVars, decodeVars >>
    /\ pc = "start"
    /\ running' = TRUE
    /\ started' = TRUE
    /\ pc' = "wait"
    /\ UNCHANGED << discoveryVars, registered, gateVars >>
    /\ UNCHANGED << watched, stopped, session_lost >>
    /\ UNCHANGED << workerVars, exitVars >>

\* ------------------------------------------------------------ the callbacks
\* The condition of process_data.
Complete(d) ==
    /\ d.RPM # None
    /\ d.Torque_Percent # None
    /\ d.Reference_Torque # None

\* actual_torque_nm = (Torque_Percent / 100.0) * Reference_Torque, in
\* hundredths of a Nm as "{:.2f}" prints it.
actual_torque_nm(d) == d.Torque_Percent[1] * d.Reference_Torque[1]

\* horsepower = (actual_torque_nm * RPM) / 7127, in hundredths of a HP as
\* "{:.2f}" prints it.
horsepower(d) == RoundDiv(actual_torque_nm(d) * d.RPM[1], HP_DIVISOR)

\* The report process_data prints for a complete snapshot (the RPM too in
\* hundredths).
Report(d) ==
    [rpm |-> 100 * d.RPM[1], torque |-> actual_torque_nm(d), horsepower |-> horsepower(d)]

\* Faulty variant: the callbacks store whatever they are handed, "no data" included.
HasValue_always(r) == TRUE

\* if not r.is_null()  /  if r.value is not None
HasValue(r) == r.value # None

\* Faulty variant: a new value is added to the one the field holds.
Stored_accumulating(d, field, r) ==
    [d EXCEPT ![field] = IF d[field] = None THEN r.value
                                            ELSE Some(d[field][1] + r.value[1])]

\* The snapshot after a callback stores r.value in its field.
Stored(d, field, r) == [d EXCEPT ![field] = r.value]

\* Faulty variant: each command is polled by a thread of its own, so a callback can
\* be invoked while another one is executing.
MayInvoke_concurrently(cb) == TRUE

\* The polling thread of the session invokes the callbacks one at a time.
MayInvoke(cb) == \A other \in Callbacks : wpc[other] = "idle"

\* The snapshot field that holds the value of a command.
FieldOf(cmd) ==
    CASE cmd = "RPM" -> "RPM"
      [] cmd = "ACTUAL_ENGINE_PERCENT_TORQUE" -> "Torque_Percent"
      [] cmd = "ENGINE_REF_TORQUE" -> "Reference_Torque"

\* A callback invoked with response r: if r has a value, store it in the
\* callback's field and go on to next (the call of process_data).  The
\* history variables record the invocation itself, whatever the callback
\* makes of it.
Callback(cb, field, r, next) ==
    /\ UNCHANGED << cliVars, decodeVars >>
    /\ running
    /\ CommandOf(cb) \in watched
    /\ deliveries < MaxDeliveries
    /\ MayInvoke(cb)
    /\ wpc[cb] = "idle"
    /\ IF HasValue(r)
       THEN /\ data' = Stored(data, field, r)
            /\ after' = [after EXCEPT ![cb] = Stored(data, field, r)]
            /\ wpc' = [wpc EXCEPT ![cb] = next]
       ELSE UNCHANGED << data, after, wpc >>
    /\ deliveries' = deliveries + 1
    /\ last_call' = Some([callback |-> cb, response |-> r])
    /\ delivered' = IF r.value # None
                       THEN [delivered EXCEPT ![FieldOf(CommandOf(cb))] = r.value]
                       ELSE delivered
    /\ completing' = IF r.value # None /\ Complete(data') THEN completing + 1 ELSE completing
    /\ UNCHANGED reports
    /\ UNCHANGED << pc, discoveryVars, registered, gateVars >>
    /\ UNCHANGED << sessionVars, exitVars >>

\* Faulty variant: new_rpm stores the value and returns without process_data().
new_rpm_no_process(r) == Callback("new_rpm", "RPM", r, "idle")

\* def new_rpm(r)
new_rpm(r) == Callback("new_rpm", "RPM", r, "process_data")

\* Faulty variant: new_torque_percent stores its value in the reference-torque field.
new_torque_percent_wrong_field(r) ==
    Callback("new_torque_percent", "Reference_Torque", r, "process_data")

\* def new_torque_percent(r)
new_torque_percent(r) ==
    Callback("new_torque_percent", "Torque_Percent", r, "process_data")

\* def new_reference_torque(r)
new_reference_torque(r) ==
    Callback("new_reference_torque", "Reference_Torque", r, "process_data")

\* process_data(), called by callback cb after its update.
process_data(cb) ==
    /\ UNCHANGED << cliVars, decodeVars >>
    /\ wpc[cb] = "process_data"
    /\ reports' = IF Complete(data) THEN Append(reports, Report(data)) ELSE reports
    /\ wpc' = [wpc EXCEPT ![cb] = "idle"]
    /\ UNCHANGED << data, after, deliveries, completing, delivered, last_call >>
    /\ UNCHANGED << pc, discoveryVars, registered, gateVars >>
    /\ UNCHANGED << sessionVars, exitVars >>

\* The session fails for good while polling runs (the adapter is unplugged,
\* the link drops): the polling thread ends and invokes no more callbacks.
\* Nothing in main() is told: it keeps awaiting the Event.
SessionLost ==
    /\ pc = "wait"
    /\ running
    /\ ~session_lost
    /\ \A cb \in Callbacks : wpc[cb] = "idle"
    /\ running' = FALSE
    /\ session_lost' = TRUE
    /\ UNCHANGED << cliVars, decodeVars >>
    /\ UNCHANGED << pc, discoveryVars, registered, gateVars >>
    /\ UNCHANGED << watched, started, stopped >>
    /\ UNCHANGED << workerVars, exitVars >>

\* ------------------------------------------------------------ the shutdown
\* The operator's interrupt while main() awaits the Event: asyncio.run
\* cancels main(), and the await raises CancelledError.
Interrupt ==
    /\ UNCHANGED << cliVars, decodeVars >>
    /\ pc = "wait"
    /\ exc' = Some("CancelledError")
    /\ pc' = "except"
    /\ mid_callback' = (\E cb \in Callbacks : wpc[cb] # "idle")
    /\ UNCHANGED << exit_status, exit_by >>
    /\ UNCHANGED << discoveryVars, registered, gateVars >>
    /\ UNCHANGED << sessionVars, workerVars >>

\* except KeyboardInterrupt
ExceptMatches(e) == e = Some("KeyboardInterrupt")

\* The except clause: a matching exception is handled ("Stopping...").
Except ==
    /\ UNCHANGED << cliVars, decodeVars >>
    /\ pc = "except"
    /\ exc' = IF ExceptMatches(exc) THEN None ELSE exc
    /\ pc' = "finally"
    /\ UNCHANGED << exit_status, exit_by, mid_callback >>
    /\ UNCHANGED << discoveryVars, registered, gateVars >>
    /\ UNCHANGED << sessionVars, workerVars >>

\* Faulty variant: connection.stop() sits in the except clause, so it runs only when
\* the exception was handled there.
Finally_only_when_handled ==
    /\ UNCHANGED << cliVars, decodeVars >>
    /\ pc = "finally"
    /\ pc' = IF exc = None THEN "stopping" ELSE "unwind"
    /\ UNCHANGED << discoveryVars, registered, gateVars >>
    /\ UNCHANGED << sessionVars, workerVars, exitVars >>

\* finally: connection.stop() is called; it waits for the polling thread.
Finally ==
    /\ UNCHANGED << cliVars, decodeVars >>
    /\ pc = "finally"
    /\ pc' = "stopping"
    /\ UNCHANGED << discoveryVars, registered, gateVars >>
    /\ UNCHANGED << sessionVars, workerVars, exitVars >>

\* connection.stop() returns once the polling thread has ended.
StopReturns ==
    /\ UNCHANGED << cliVars, decodeVars >>
    /\ pc = "stopping"
    /\ \A cb \in Callbacks : wpc[cb] = "idle"
    /\ running' = FALSE
    /\ stopped' = TRUE
    /\ pc' = "unwind"
    /\ UNCHANGED << watched, started, session_lost >>
    /\ UNCHANGED << discoveryVars, registered, gateVars >>
    /\ UNCHANGED << workerVars, exitVars >>

\* The status asyncio.run(main()) ends the process with: an exception still
\* propagating is re-raised as KeyboardInterrupt at top level.
StatusAfter(e) == IF e = None THEN 0 ELSE EXIT_SIGINT

\* main() is over; asyncio.run returns or raises.
Unwind ==
    /\ UNCHANGED << cliVars, decodeVars >>
    /\ pc = "unwind"
    /\ exit_status' = Some(StatusAfter(exc))
    /\ exit_by' = "interrupt"
    /\ pc' = "exit"
    /\ UNCHANGED << exc, mid_callback >>
    /\ UNCHANGED << discoveryVars, registered, gateVars >>
    /\ UNCHANGED << sessionVars, workerVars >>

\* ---------------------------------------------------------- specification
Next ==
    \/ self_test
    \/ RunMain
    \/ Enumerate
    \/ TrySerial
    \/ SerialExhausted
    \/ TryWifi
    \/ DiscoveryFailed
    \/ RegisterCommands
    \/ CapabilityGate
    \/ Subscribe
    \/ Start
    \/ \E r \in Responses(RpmValues) : new_rpm(r)
    \/ \E r \in Responses(TorquePercentValues) : new_torque_percent(r)
    \/ \E r \in Responses(ReferenceTorqueValues) : new_reference_torque(r)
    \/ \E cb \in Callbacks : process_data(cb)
    \/ SessionLost
    \/ Interrupt
    \/ Except
    \/ Finally
    \/ StopReturns
    \/ Unwind

Spec == Init /\ [][Next]_vars

\* ------------------------------------------------------------- properties
\* The callbacks that have stored a value completing the snapshot and have
\* not yet come to the end of process_data.
C1_InFlight == { cb \in Callbacks : wpc[cb] = "process_data" /\ Complete(data) }

\* C1: no report is emitted while a snapshot field is unset, and every
\* delivery of a present value that leaves the snapshot complete emits exactly
\* one report: the reports printed, plus the one of a callback still
\* executing, number the present-value deliveries that left the snapshot
\* complete.
C1_ReportsMatchCompletingDeliveries ==
    /\ [](Len(reports) + Cardinality(C1_InFlight) = completing)
    /\ [][reports' # reports =>
            /\ Complete(data)
            /\ Len(reports') = Len(reports) + 1]_vars

\* RPM alone gave no report, then the torques completed the snapshot: of
\* four deliveries made, one left the snapshot complete and one report is out.
C1_Witness ==
    /\ deliveries = 4
    /\ completing = 1
    /\ Len(reports) = 1
    /\ \A cb \in Callbacks : wpc[cb] = "idle"

\* The candidates in the order of the two loops of connect_obd.
C2_Candidates ==
    [i \in 1..Len(serial_ports) |-> SerialCandidate(serial_ports[i])] \o wifi_addresses

\* connect_obd has returned a session to main().
C2_Returned ==
    \/ pc \in { "connected", "gate", "watch", "start", "wait", "except",
                "finally", "stopping", "unwind" }
    \/ pc = "exit" /\ exit_by \in { "return", "gate", "interrupt" }

\* C2: the probes made are a prefix of the serial candidates in enumeration
\* order followed by the network pairs in list order, each candidate at most
\* once; only the last probe can have reported connected, and then discovery
\* has returned that very session and probes no further; discovery returns
\* in no other way.
C2_ProbesArePrefixEndingAtFirstConnected ==
    /\ Len(probes) <= Len(C2_Candidates)
    /\ \A i \in 1..Len(probes) : probes[i].candidate = C2_Candidates[i]
    /\ \A i, j \in 1..Len(probes) : i # j => probes[i].candidate # probes[j].candidate
    /\ \A i \in 1..(Len(probes) - 1) : ~probes[i].connected
    /\ C2_Returned <=> (probes # << >> /\ probes[Len(probes)].connected)
    /\ C2_Returned =>
          connection = Some(Session(probes[Len(probes)].candidate, TRUE))

\* Two serial candidates failed, the first network pair failed, the second
\* connected: its session is the one main() goes on with.
C2_Witness ==
    /\ Len(serial_ports) = 2
    /\ Len(probes) = 4
    /\ pc = "gate"
    /\ connection = Some(Session(wifi_addresses[2], TRUE))

\* Every candidate of both loops has been probed and none reported connected.
C3_AllFailed ==
    /\ pc \notin { "__main__", "main", "serial" }
    /\ Len(probes) = Len(C2_Candidates)
    /\ \A i \in 1..Len(probes) : ~probes[i].connected

\* C3: discovery ends the process, with status 1, only when every serial and
\* network candidate has been probed without a connected session, and then
\* nothing of the gate or of polling has happened; once all have failed the
\* process is at that exit or about to take it; and a process that ran
\* discovery and ended with candidates unprobed had obtained a connected
\* session before.
C3_DiscoveryExitsOnlyWhenAllFailed ==
    /\ exit_by = "discovery" =>
          /\ pc = "exit"
          /\ exit_status = Some(1)
          /\ C3_AllFailed
          /\ registered = {}
          /\ session_supports = None
          /\ watched = {}
          /\ ~started
          /\ deliveries = 0
    /\ C3_AllFailed =>
          \/ pc = "wifi" /\ exit_status = None
          \/ exit_by = "discovery"
    /\ (pc = "exit" /\ exit_by # "self_test" /\ ~C3_AllFailed) =>
          (probes # << >> /\ probes[Len(probes)].connected)

\* Two serial candidates and the four network pairs all failed.
C3_Witness ==
    /\ exit_by = "discovery"
    /\ Len(probes) = 6
    /\ exit_status = Some(1)

\* C4: when the session reports one of the three required commands as
\* unsupported the process has exited with status 1 at the gate, with no
\* callback subscribed, polling never started and no report emitted.
C4_UnsupportedCommandExitsBeforePolling ==
    (/\ session_supports # None
     /\ \E i \in 1..Len(required_commands) :
           required_commands[i] \notin session_supports[1]) =>
        /\ pc = "exit"
        /\ exit_status = Some(1)
        /\ exit_by = "gate"
        /\ watched = {}
        /\ ~started
        /\ ~running
        /\ deliveries = 0
        /\ reports = << >>

\* The session supports RPM and percent torque but not reference torque.
C4_Witness ==
    /\ session_supports = Some({ "RPM", "ACTUAL_ENGINE_PERCENT_TORQUE" })
    /\ unsupported_commands = << "ENGINE_REF_TORQUE" >>
    /\ pc = "exit"

\* C5: once start() was called the process does not exit before
\* connection.stop() has returned, and after that no callback changes the
\* snapshot or emits a report.
C5_StopBeforeExitAndTerminal ==
    /\ []((started /\ exit_status # None) => stopped)
    /\ [][stopped => (data' = data /\ reports' = reports /\ stopped')]_vars

\* The interrupt came while a callback was executing; the process has
\* exited after stop().
C5_Witness ==
    /\ pc = "exit"
    /\ started
    /\ stopped
    /\ mid_callback
    /\ reports # << >>

\* C6: the exit status is 0 when the process ends by the operator's
\* interruption during polling, and 1 when no transport connects or a
\* required command is unsupported.
C6_ExitStatusZeroOnInterrupt ==
    /\ exit_by = "interrupt" => exit_status = Some(0)
    /\ exit_by = "discovery" => exit_status = Some(1)
    /\ exit_by = "gate" => exit_status = Some(1)

C8_NullResultChangesNothing ==
    [][(deliveries' # deliveries /\ last_call'[1].response.value = None) =>
          /\ data' = data
          /\ wpc' = wpc
          /\ reports' = reports
          /\ pc' = pc
          /\ exit_status' = exit_status
          /\ running' = running]_vars

\* new_rpm was just handed "no data" on a complete snapshot: the RPM seen
\* before is still there and no second report came.
C8_Witness ==
    /\ last_call = Some([callback |-> "new_rpm", response |-> [value |-> None]])
    /\ data.RPM = Some(3000)
    /\ Complete(data)
    /\ Len(reports) = 1
    /\ deliveries = 4

\* C9: the snapshot starts all unset; a field is set only once a present
\* value was delivered for its command, and then equals the latest present
\* value delivered for it; a set field is never unset again.
C9_SnapshotHoldsLatestDelivered ==
    /\ [](data = delivered)
    /\ [](deliveries = 0 => data = EmptyData)
    /\ [][\A i \in 1..Len(required_commands) :
            data[FieldOf(required_commands[i])] # None =>
                data'[FieldOf(required_commands[i])] # None]_vars

\* Percent torque was delivered as 50 and later as -25: the field holds -25.
C9_Witness ==
    /\ data = [RPM |-> Some(3000), Torque_Percent |-> Some(-25),
               Reference_Torque |-> Some(300)]
    /\ Len(reports) = 2
    /\ reports[1].torque = 50 * 300
    /\ reports[2].torque = (-25) * 300

\* C10: a callback changes no field but that of its own command; every
\* report is the one of the latest value delivered for each of the three
\* commands; and a report triggered by new_rpm after an earlier report shows
\* the new RPM with the torque of the previous report.
C10_ReportFromLastSeenValues ==
    /\ [][deliveries' # deliveries =>
            \A i \in 1..Len(required_commands) :
                required_commands[i] # CommandOf(last_call'[1].callback) =>
                    data'[FieldOf(required_commands[i])]
                        = data[FieldOf(required_commands[i])]]_vars
    /\ [][reports' # reports => reports' = Append(reports, Report(delivered))]_vars
    /\ [][(/\ wpc["new_rpm"] = "process_data"
           /\ reports' # reports
           /\ reports # << >>) =>
              /\ reports'[Len(reports')].rpm = 100 * delivered.RPM[1]
              /\ reports'[Len(reports')].torque = reports[Len(reports)].torque]_vars

\* RPM 3000 completed the snapshot and RPM 4000 followed: two reports that
\* differ in the RPM and the horsepower and agree on the torque.
C10_Witness ==
    /\ Len(reports) = 2
    /\ reports[1].rpm = 300000
    /\ reports[2].rpm = 400000
    /\ reports[1].torque = reports[2].torque
    /\ reports[1].horsepower # reports[2].horsepower
    /\ last_call = Some([callback |-> "new_rpm", response |-> [value |-> Some(4000)]])

\* C11: a session that discovery returned has been stopped before the
\* process exits, on a fatal error as on shutdown; in particular before the
\* capability gate ends the process.
C11_SessionStoppedBeforeEveryExit ==
    (exit_status # None /\ C2_Returned) => stopped

\* C12 as stated: the self-test prints ActualTorque = 150.00 Nm and
\* Horsepower = 63.17 HP.
C12_SelfTestPrints6317 ==
    self_test_output # None =>
        /\ self_test_output[1].actual_torque = 15000
        /\ self_test_output[1].horsepower = 6317

\* C12: with RPM = 3000, TorquePercent = 50 and ReferenceTorque = 300 the
\* self-test prints ActualTorque = 150.00 Nm and Horsepower = 63.14 HP, which
\* is (ActualTorque x RPM) / 7127 rounded to two decimal places.
C12_SelfTestPrints6314 ==
    self_test_output # None =>
        /\ self_test_output[1].rpm = 300000
        /\ self_test_output[1].torque_percent = 5000
        /\ self_test_output[1].reference_torque = 30000
        /\ self_test_output[1].actual_torque = 15000
        /\ self_test_output[1].horsepower = 6314
        /\ self_test_output[1].horsepower =
              RoundDiv(self_test_output[1].actual_torque * 3000, 7127)

C12_Witness ==
    /\ self_test_output # None
    /\ exit_by = "self_test"

\* The first message of the response has at least n data bytes.
C13_FirstMessageHas(n) == Len(messages) >= 1 /\ Len(messages[1].data) >= n

\* The i-th data byte of the first message.
C13_FirstMessageByte(i) == messages[1].data[i][1]

C13_DecodedBy(decoder) == decoded # None /\ decoded[1].decoder = decoder

C14_ReferenceTorqueIs256APlusB ==
    (C13_DecodedBy("decode_reference_torque") /\ C13_FirstMessageHas(2)) =>
        /\ decoded[1].result =
              Returns(Some(256 * C13_FirstMessageByte(1) + C13_FirstMessageByte(2)))
        /\ decoded[1].result.value[1] \in 0 .. 65535

C14_Witness ==
    /\ C13_DecodedBy("decode_reference_torque")
    /\ C13_FirstMessageHas(2)
    /\ C13_FirstMessageByte(1) = 1
    /\ C13_FirstMessageByte(2) = 2
    /\ decoded[1].result.value = Some(258)

\* C15: on an empty message sequence either decoder returns None and does
\* not raise.
C15_EmptySequenceDecodesToNone ==
    (decoded # None /\ messages = << >>) =>
        /\ decoded[1].result.raised = ""
        /\ decoded[1].result.value = None

C15_Witness ==
    /\ messages = << >>
    /\ C13_DecodedBy("decode_reference_torque")

\* C16: started with --self-test as its first argument, the process prints
\* the fixed-input calculation and ends, and never enumerates serial devices,
\* probes an address, opens a session, registers a command, subscribes or
\* starts polling.
C16_SelfTestTouchesNoTransport ==
    (Len(argv) > 1 /\ argv[2] = "--self-test") =>
        /\ pc \in { "__main__", "exit" }
        /\ pc = "exit" =>
              self_test_output # None /\ exit_status = Some(0) /\ exit_by = "self_test"
        /\ serial_ports = << >> /\ idx = 0
        /\ probes = << >> /\ connection = None
        /\ registered = {}
        /\ watched = {}
        /\ ~started /\ ~running

C16_Witness ==
    /\ Len(argv) > 1 /\ argv[2] = "--self-test"
    /\ pc = "exit"
    /\ self_test_output # None

\* The steps the program and the polling thread take without the operator.
C17_StepWithoutOperator ==
    \/ \E r \in Responses(RpmValues) : new_rpm(r)
    \/ \E r \in Responses(TorquePercentValues) : new_torque_percent(r)
    \/ \E r \in Responses(ReferenceTorqueValues) : new_reference_torque(r)
    \/ \E cb \in Callbacks : process_data(cb)
    \/ Except
    \/ Finally
    \/ StopReturns
    \/ Unwind

\* C17: once the session has failed for good in Polling, the aggregator goes
\* on to stop the session and end the process by itself: until the process
\* has exited it has a step to take that is not the operator's interrupt.
C17_SessionErrorLeadsToStop ==
    (session_lost /\ exit_status = None) => ENABLED C17_StepWithoutOperator

\* C18 as stated: both custom commands are registered by the time discovery
\* returns a connected session, and by the time of the capability check.
C18_RegisteredBeforeDiscoveryReturns ==
    /\ (C2_Returned /\ connection # None) => registered = CustomCommands
    /\ session_supports # None => registered = CustomCommands

\* C18: the two custom commands are registered after discovery has returned
\* a connected session and before the capability check of the three
\* commands: nothing is registered until a connected session is returned,
\* and both are registered when the check is made.
C18_RegisteredAfterDiscoveryBeforeGate ==
    /\ registered \in { {}, CustomCommands }
    /\ registered # {} =>
          C2_Returned /\ connection # None /\ connection[1].connected
    /\ pc \in { "__main__", "main", "serial", "wifi", "connected" } => registered = {}
    /\ session_supports # None => registered = CustomCommands

C18_Witness ==
    /\ session_supports # None
    /\ registered = CustomCommands

\* Position of call op in the latest pass, 0 if the pass did not make it.
C19_Position(op) ==
    IF \E i \in 1..Len(attempt[1].ops) : attempt[1].ops[i] = op
    THEN CHOOSE i \in 1..Len(attempt[1].ops) : attempt[1].ops[i] = op
    ELSE 0

\* C19: in a pass of the network loop the session is opened only after the
\* reachability probe of that pair succeeded and the probe connection was
\* closed; when the probe fails no session open is attempted for the pair
\* and discovery is at the next pair.
C19_SessionOpenOnlyAfterProbeClosed ==
    (attempt # None /\ attempt[1].loop = "wifi") =>
        /\ attempt[1].candidate = wifi_addresses[attempt[1].at]
        /\ C19_Position("socket.create_connection") = 1
        /\ C19_Position("obd.Async") # 0 =>
              /\ attempt[1].outcome # "unreachable"
              /\ C19_Position("sock.close") = 2
              /\ C19_Position("obd.Async") = 3
        /\ attempt[1].outcome = "unreachable" =>
              /\ C19_Position("obd.Async") = 0
              /\ connection = None \/ connection[1].transport # attempt[1].candidate
              /\ pc = "wifi" \/ (pc = "exit" /\ exit_by = "discovery")
              /\ idx = attempt[1].at + 1

\* A probe failed on a pair that is not the last one.
C19_Witness ==
    /\ attempt # None
    /\ attempt[1].loop = "wifi"
    /\ attempt[1].outcome = "unreachable"
    /\ attempt[1].at < Len(wifi_addresses)
    /\ pc = "wifi"

\* C20: when discovery returns a connected session or ends the process,
\* every session it opened that reported not connected has been closed.
C20_OnlyReturnedSessionOpen ==
    (C2_Returned \/ exit_by = "discovery") => ~unreleased

====
